---- MODULE Spec2Model ----
(***************************************************************************)
(* tunebox: a polyphonic synthesiser.  A control context sends NoteOn /    *)
(* NoteOff / SetUiFeedback messages over a bounded channel; the audio      *)
(* context drains them at the start of every fill_buffer, advances every   *)
(* voice's gate and ADSR envelope once per stereo frame, retires voices    *)
(* that stayed silent, and publishes a snapshot for the user interface.    *)
(*                                                                         *)
(* Numbers.  The envelope is f32 in the source.  Here a level is an        *)
(* integer count of 1/One, and every product or quotient of the source is  *)
(* computed in that fixed point and rounded down.  A voice's phase is an   *)
(* integer count of 1/PhaseOne of a cycle.  The oscillator and the output  *)
(* samples are not modelled: no branch of the code reads them.             *)
(***************************************************************************)
EXTENDS Integers, Sequences, FiniteSets, TLC

VARIABLES
    \* ---- the synthesiser (every specification but EnvSpec) ----
    msgs,         \* the sync_channel buffer: messages sent and not yet received
    sender,       \* the control context: <<>> when idle, <<m>> while blocked in send(m)
    sent,         \* number of messages handed to send so far
    voices,       \* VoiceBank.voices, in allocation order
    pan_seed,     \* VoiceBank.pan_seed, as a numerator over PanSeedDen
    sample_rate,  \* SynthProvider.sample_rate
    channels,     \* SynthProvider.channels
    prov_fb,      \* SynthProvider.ui_feedback: 0 for None, else a snapshot handle
    ctl_fb,       \* SynthController.ui_feedback: 0 for None, else a snapshot handle
    snaps,        \* handle -> UiFeedback.voices of that snapshot
    guard,        \* the handle whose mutex the reader holds, 0 for none
    pc,           \* where the audio context is inside fill_buffer
    frames,       \* stereo frames of the buffer being filled
    applied,      \* sequence number of the last message process_messages applied
    mark,         \* value of sent when the current fill_buffer began
    last,         \* the message process_messages applied last
    published,    \* <<note, active>> of every voice the latest publish read from the bank
    \* ---- one envelope driven sample by sample (specification EnvSpec) ----
    env,          \* an Adsr
    held,         \* the owning voice's active flag, the input of advance
    env_rate,     \* sample rate the samples are taken at
    ins,          \* the last two inputs given to Gate::update, oldest first
    run           \* bookkeeping of the current "held since Silence" passage

synthVars == <<msgs, sender, sent, voices, pan_seed, sample_rate, channels,
               prov_fb, ctl_fb, snaps, guard, pc, frames, applied, mark,
               last, published>>
envVars == <<env, held, env_rate, ins, run>>
vars == <<synthVars, envVars>>

----------------------------------------------------------------------------
(* Bounds of the exploration *)

\* resolution of a level: 1.0 is One units
One == 384
\* resolution of a phase: one cycle (TAU) is PhaseOne units
PhaseOne == 2
\* messages the control context sends in one behaviour
MaxSends == 2
\* messages allowed to wait in the channel in Spec (the channel itself holds QueueCapacity)
MaxPending == 2
\* notes are drawn from 0..NumNotes-1
NumNotes == 2

Notes == 0 .. (NumNotes - 1)
\* velocities of the notes sent: half and full in Spec, soft, half and full in EnvSpec
Velocities == {64, 127}
EnvVelocities == {32, 64, 127}
\* buffer lengths, in stereo frames, the host asks for
Frames == {0, 1, 2}
\* sample rates the host configures in Spec
SampleRates == {1}
\* channel counts the host configures in CfgSpec
ChannelCounts == {1, 2}
\* sample rates of EnvSpec
EnvRates == {8, 48}

----------------------------------------------------------------------------
(* Program constants *)

QueueCapacity == 128
\* Vec::with_capacity of the voice bank and of the snapshot list
BankCapacity == 32
SnapshotCapacity == 16
DefaultSampleRate == 44100
DefaultChannels == 2
SilenceThreshold == 40
\* Adsr::new(0.03, 0.2, 0.5, 4.0, gain): times in milliseconds, sustain in percent
AttackMs == 30
DecayMs == 200
SusPct == 50
ReleaseMs == 4000
\* gain = midi_velocity_to_gain(velocity) * 0.7
MixPct == 70
MaxVelocity == 127
\* pan_seed = (pan_seed + 2503.0 / 443.0).fract()
PanSeedNum == 2503
PanSeedDen == 443

Min(a, b) == IF a <= b THEN a ELSE b
Max(a, b) == IF a >= b THEN a ELSE b

\* floor of the square root
Isqrt(x) == CHOOSE r \in 0 .. (One + 1) : r * r <= x /\ (r + 1) * (r + 1) > x

----------------------------------------------------------------------------
(* Gate *)

GateNew == "Low"

GateUpdateFlipped(g, new_value) ==
    CASE g = "Low"         -> IF new_value THEN "RisingEdge" ELSE "Low"
      [] g = "RisingEdge"  -> IF new_value THEN "High" ELSE "FallingEdge"
      [] g = "High"        -> IF ~new_value THEN "FallingEdge" ELSE "High"
      [] g = "FallingEdge" -> IF ~new_value THEN "Low" ELSE "High"

GateUpdate(g, new_value) ==
    CASE g = "Low"         -> IF new_value THEN "RisingEdge" ELSE "Low"
      [] g = "RisingEdge"  -> IF new_value THEN "High" ELSE "FallingEdge"
      [] g = "High"        -> IF ~new_value THEN "FallingEdge" ELSE "High"
      [] g = "FallingEdge" -> IF ~new_value THEN "Low" ELSE "RisingEdge"

is_rising_edge(g) == g = "RisingEdge"
is_lowish(g) == g \in {"FallingEdge", "Low"}

----------------------------------------------------------------------------
(* Adsr *)

\* atk_inc * dt, dec_inc * dt, rel_inc * dt with dt = 1 / sr
AtkStep(sr) == (1000 * One) \div (AttackMs * sr)
DecStep(sr) == ((100 - SusPct) * 1000 * One) \div (100 * DecayMs * sr)
RelStep(sr) == (SusPct * 1000 * One) \div (100 * ReleaseMs * sr)
\* sus_lvl * gain_lvl
SusLevel(gain_lvl) == (SusPct * gain_lvl) \div 100

AdsrNew(gain) ==
    [state |-> "Silence", position |-> 0, gate |-> GateNew, gain_lvl |-> Isqrt(gain * One)]

AdsrIsSilent(a) == a.state = "Silence"

SetGain(a, gain) == [a EXCEPT !.gain_lvl = Isqrt(gain * One)]

AdsrValue(a) == a.position

\* the arms of the match in Adsr::update
UpdateSilenceOnHigh(a, gate) ==
    IF gate = "High"
    THEN [a EXCEPT !.position = 0, !.state = "Attack"]
    ELSE a

UpdateSilence(a, gate) ==
    IF is_rising_edge(gate)
    THEN [a EXCEPT !.position = 0, !.state = "Attack"]
    ELSE a

UpdateAttackUnclamped(a, sr) ==
    LET p == a.position + AtkStep(sr) IN
    IF p >= a.gain_lvl
    THEN [a EXCEPT !.position = p, !.state = "Decay"]
    ELSE [a EXCEPT !.position = p]

UpdateAttack(a, sr) ==
    LET p == a.position + AtkStep(sr) IN
    IF p >= a.gain_lvl
    THEN [a EXCEPT !.position = Min(p, One), !.state = "Decay"]
    ELSE [a EXCEPT !.position = p]

UpdateDecayUnclamped(a, gate, sr) ==
    LET p == a.position - DecStep(sr) IN
    IF is_rising_edge(gate)
    THEN [a EXCEPT !.position = p, !.state = "Attack"]
    ELSE IF p <= SusLevel(a.gain_lvl)
    THEN [a EXCEPT !.position = p, !.state = "Sustain"]
    ELSE [a EXCEPT !.position = p]

UpdateDecayCancellable(a, gate, sr) ==
    LET p == a.position - DecStep(sr) IN
    IF is_rising_edge(gate)
    THEN [a EXCEPT !.position = p, !.state = "Attack"]
    ELSE IF is_lowish(gate)
    THEN [a EXCEPT !.position = p, !.state = "Release"]
    ELSE IF p <= SusLevel(a.gain_lvl)
    THEN [a EXCEPT !.position = Max(p, SusLevel(a.gain_lvl)), !.state = "Sustain"]
    ELSE [a EXCEPT !.position = p]

UpdateDecay(a, gate, sr) ==
    LET p == a.position - DecStep(sr) IN
    IF is_rising_edge(gate)
    THEN [a EXCEPT !.position = p, !.state = "Attack"]
    ELSE IF p <= SusLevel(a.gain_lvl)
    THEN [a EXCEPT !.position = Max(p, SusLevel(a.gain_lvl)), !.state = "Sustain"]
    ELSE [a EXCEPT !.position = p]

UpdateSustain(a, gate) ==
    IF is_lowish(gate) THEN [a EXCEPT !.state = "Release"]
    ELSE IF is_rising_edge(gate) THEN [a EXCEPT !.state = "Attack"]
    ELSE a

UpdateReleaseLingering(a, gate, sr) ==
    LET p == a.position - RelStep(sr) IN
    IF is_rising_edge(gate)
    THEN [a EXCEPT !.position = p, !.state = "Attack"]
    ELSE IF p <= 0
    THEN [a EXCEPT !.position = 0]
    ELSE [a EXCEPT !.position = p]

UpdateReleaseResetting(a, gate, sr) ==
    LET p == a.position - RelStep(sr) IN
    IF is_rising_edge(gate)
    THEN [a EXCEPT !.position = 0, !.state = "Attack"]
    ELSE IF p <= 0
    THEN [a EXCEPT !.position = 0, !.state = "Silence"]
    ELSE [a EXCEPT !.position = p]

UpdateReleaseLate(a, gate, sr) ==
    LET p == a.position - RelStep(sr) IN
    IF is_rising_edge(gate)
    THEN [a EXCEPT !.position = p, !.state = "Attack"]
    ELSE IF p < 0
    THEN [a EXCEPT !.position = 0, !.state = "Silence"]
    ELSE [a EXCEPT !.position = p]

UpdateReleaseUnpinned(a, gate, sr) ==
    LET p == a.position - RelStep(sr) IN
    IF is_rising_edge(gate)
    THEN [a EXCEPT !.position = p, !.state = "Attack"]
    ELSE IF p <= 0
    THEN [a EXCEPT !.position = p, !.state = "Silence"]
    ELSE [a EXCEPT !.position = p]

UpdateRelease(a, gate, sr) ==
    LET p == a.position - RelStep(sr) IN
    IF is_rising_edge(gate)
    THEN [a EXCEPT !.position = p, !.state = "Attack"]
    ELSE IF p <= 0
    THEN [a EXCEPT !.position = 0, !.state = "Silence"]
    ELSE [a EXCEPT !.position = p]

AdsrUpdate(a, gate, sr) ==
    CASE a.state = "Silence" -> UpdateSilence(a, gate)
      [] a.state = "Attack"  -> UpdateAttack(a, sr)
      [] a.state = "Decay"   -> UpdateDecay(a, gate, sr)
      [] a.state = "Sustain" -> UpdateSustain(a, gate)
      [] a.state = "Release" -> UpdateRelease(a, gate, sr)

\* advance: the gate sees the input, then the envelope sees the gate
AdsrAdvance(a, sr, value) ==
    LET g == GateUpdate(a.gate, value)
    IN  AdsrUpdate([a EXCEPT !.gate = g], g, sr)

\* midi_velocity_to_gain, then the 0.7 of note_on
midi_velocity_to_gain(velocity) ==
    (Min(velocity, MaxVelocity) * Min(velocity, MaxVelocity) * One)
        \div (MaxVelocity * MaxVelocity)
NoteGain(velocity) == (midi_velocity_to_gain(velocity) * MixPct) \div 100

----------------------------------------------------------------------------
(* Voice *)

\* pan is kept in units of 1/PanOne
PanOne == 10 * PanSeedDen

Clamp(x, lo, hi) == Max(lo, Min(x, hi))

VoiceNew(note, gain, pan) ==
    [note          |-> note,
     adsr          |-> AdsrNew(gain),
     active        |-> TRUE,
     silence_timer |-> 0,
     pan           |-> Clamp((pan * 5) \div 10 + (PanOne * 5) \div 10, 0, PanOne),
     phase         |-> 0]

VoiceRestartStealing(v, gain) ==
    [v EXCEPT !.adsr = AdsrNew(gain), !.active = TRUE, !.silence_timer = 0, !.phase = 0]

VoiceRestart(v, gain) ==
    [v EXCEPT !.adsr = SetGain(v.adsr, gain), !.active = TRUE, !.silence_timer = 0]

VoiceRelease(v) == [v EXCEPT !.active = FALSE]

VoiceIsSilent(v) == v.silence_timer > SilenceThreshold

\* the frame loop: advance once per stereo frame of the buffer
RECURSIVE AdvanceFrames(_, _, _, _)
AdvanceFrames(a, n, sr, value) ==
    IF n = 0 THEN a ELSE AdvanceFrames(AdsrAdvance(a, sr, value), n - 1, sr, value)

\* silence_timer is a u8 and the add saturates
SaturatingAdd1(t) == Min(t + 1, 255)

\* midi_note_to_freq, in millihertz: the twelve semitones from note 0, doubled
\* once per octave
SemitoneMilliHz ==
    <<8176, 8662, 9177, 9723, 10301, 10913, 11562, 12250, 12978, 13750, 14568, 15434>>
midi_note_to_freq(note) == SemitoneMilliHz[(note % 12) + 1] * (2 ^ (note \div 12))

\* inc = TAU * freq * sample_dt, in units of 1/PhaseOne of a cycle
PhaseInc(note, sr) == (midi_note_to_freq(note) * PhaseOne) \div (1000 * sr)

\* phase += inc once per frame, then phase % TAU
PhaseAfter(v, n, sr) == (v.phase + n * PhaseInc(v.note, sr)) % PhaseOne

UpdateAndFillCounting(v, n, sr) ==
    LET a == AdvanceFrames(v.adsr, n, sr, v.active)
    IN  [v EXCEPT !.adsr = a, !.phase = PhaseAfter(v, n, sr),
                  !.silence_timer = SaturatingAdd1(v.silence_timer)]

UpdateAndFill(v, n, sr) ==
    LET a == AdvanceFrames(v.adsr, n, sr, v.active)
    IN  [v EXCEPT !.adsr = a,
                  !.phase = PhaseAfter(v, n, sr),
                  !.silence_timer = IF AdsrIsSilent(a)
                                    THEN SaturatingAdd1(v.silence_timer)
                                    ELSE v.silence_timer]

----------------------------------------------------------------------------
(* VoiceBank: a record [voices, pan_seed] *)

BankNew == [voices |-> <<>>, pan_seed |-> 0]

\* index of the first voice with this note, 0 when there is none
FindNote(vs, note) ==
    IF \E i \in DOMAIN vs : vs[i].note = note
    THEN CHOOSE i \in DOMAIN vs :
            vs[i].note = note /\ \A j \in DOMAIN vs : vs[j].note = note => i <= j
    ELSE 0

BankNoteOffDefaulting(b, note) ==
    LET i == FindNote(b.voices, note)
        j == IF i = 0 /\ b.voices # <<>> THEN 1 ELSE i
    IN  IF j = 0 THEN b
        ELSE [b EXCEPT !.voices[j] = VoiceRelease(b.voices[j])]

BankNoteOff(b, note) ==
    LET i == FindNote(b.voices, note)
    IN  IF i = 0 THEN b
        ELSE [b EXCEPT !.voices[i] = VoiceRelease(b.voices[i])]

BankNoteOnPushing(b, note, velocity) ==
    LET gain == NoteGain(velocity)
        pan  == ((b.pan_seed * 10 - (PanOne * 5) \div 10) * 12) \div 10
    IN  [voices   |-> Append(b.voices, VoiceNew(note, gain, pan)),
         pan_seed |-> (b.pan_seed + PanSeedNum) % PanSeedDen]

BankNoteOnSeeding(b, note, velocity) ==
    LET gain == NoteGain(velocity)
        i    == FindNote(b.voices, note)
        pan  == ((b.pan_seed * 10 - (PanOne * 5) \div 10) * 12) \div 10
        seed == (b.pan_seed + PanSeedNum) % PanSeedDen
    IN  IF i # 0
        THEN [voices   |-> [b.voices EXCEPT ![i] = VoiceRestart(b.voices[i], gain)],
              pan_seed |-> seed]
        ELSE [voices   |-> Append(b.voices, VoiceNew(note, gain, pan)),
              pan_seed |-> seed]

BankNoteOn(b, note, velocity) ==
    LET gain == NoteGain(velocity)
        i    == FindNote(b.voices, note)
        pan  == ((b.pan_seed * 10 - (PanOne * 5) \div 10) * 12) \div 10
    IN  IF i # 0
        THEN [b EXCEPT !.voices[i] = VoiceRestart(b.voices[i], gain)]
        ELSE [voices   |-> Append(b.voices, VoiceNew(note, gain, pan)),
              pan_seed |-> (b.pan_seed + PanSeedNum) % PanSeedDen]

BankCleanUp(b) ==
    [b EXCEPT !.voices = SelectSeq(b.voices, LAMBDA v : ~VoiceIsSilent(v))]

----------------------------------------------------------------------------
(* Messages and the channel *)

NoteOnMsg(note, velocity) ==
    [kind |-> "NoteOn", note |-> note, velocity |-> velocity, handle |-> 0]
NoteOffMsg(note) ==
    [kind |-> "NoteOff", note |-> note, velocity |-> 0, handle |-> 0]
SetUiFeedbackMsg(h) ==
    [kind |-> "SetUiFeedback", note |-> 0, velocity |-> 0, handle |-> h]
\* no message yet
NoMsg == [kind |-> "None", note |-> 0, velocity |-> 0, handle |-> 0]

\* a message in flight carries the number of its send call
Stamp(m, k) == [msg |-> m, seq |-> k]

\* Receiver::try_recv: the oldest buffered message, if any
TryRecvNewest(q) ==
    IF q = <<>> THEN [ok |-> FALSE, msg |-> Stamp(NoteOffMsg(0), 0), rest |-> q]
    ELSE [ok |-> TRUE, msg |-> q[Len(q)], rest |-> SubSeq(q, 1, Len(q) - 1)]

TryRecv(q) ==
    IF q = <<>> THEN [ok |-> FALSE, msg |-> Stamp(NoteOffMsg(0), 0), rest |-> q]
    ELSE [ok |-> TRUE, msg |-> Head(q), rest |-> Tail(q)]

\* SynthController::send on a channel that buffers cap messages: the message
\* is buffered when there is room, and the caller waits when there is none
Send(m, cap) ==
    /\ sender = <<>>
    /\ sent' = sent + 1
    /\ IF Len(msgs) < cap
       THEN /\ msgs' = Append(msgs, Stamp(m, sent + 1))
            /\ sender' = <<>>
       ELSE /\ msgs' = msgs
            /\ sender' = <<Stamp(m, sent + 1)>>

\* a waiting send completes as soon as the buffer has room
SendResumes ==
    /\ sender # <<>>
    /\ Len(msgs) < QueueCapacity
    /\ msgs' = Append(msgs, sender[1])
    /\ sender' = <<>>
    /\ UNCHANGED envVars
    /\ UNCHANGED <<sent, voices, pan_seed, sample_rate, channels, prov_fb, ctl_fb,
                   snaps, guard, pc, frames, applied, mark,
                   last, published>>

----------------------------------------------------------------------------
(* The control context *)

CallNoteOn(note, velocity, cap) ==
    /\ Send(NoteOnMsg(note, velocity), cap)
    /\ UNCHANGED envVars
    /\ UNCHANGED <<voices, pan_seed, sample_rate, channels, prov_fb, ctl_fb,
                   snaps, guard, pc, frames, applied, mark,
                   last, published>>

CallNoteOff(note, cap) ==
    /\ Send(NoteOffMsg(note), cap)
    /\ UNCHANGED envVars
    /\ UNCHANGED <<voices, pan_seed, sample_rate, channels, prov_fb, ctl_fb,
                   snaps, guard, pc, frames, applied, mark,
                   last, published>>

\* the audio context holds the lock of snapshot h from its try_lock to the end
\* of collect_feedback
ProviderNeverHolds(h) == FALSE

ProviderHolds(h) == pc = "sort" /\ prov_fb = h

\* ui_feedback(): the reader takes the lock of the controller's snapshot, waiting
\* while the audio context holds it ...
ReaderLock ==
    /\ ctl_fb # 0
    /\ guard = 0
    /\ ~ProviderHolds(ctl_fb)
    /\ guard' = ctl_fb
    /\ UNCHANGED envVars
    /\ UNCHANGED <<msgs, sender, sent, voices, pan_seed, sample_rate, channels,
                   prov_fb, ctl_fb, snaps, pc, frames, applied, mark,
                   last, published>>

\* ... and drops the guard when it has drawn the voices
ReaderUnlock ==
    /\ guard # 0
    /\ guard' = 0
    /\ UNCHANGED envVars
    /\ UNCHANGED <<msgs, sender, sent, voices, pan_seed, sample_rate, channels,
                   prov_fb, ctl_fb, snaps, pc, frames, applied, mark,
                   last, published>>

----------------------------------------------------------------------------
(* The audio context *)

ConfigurationChanged(sr, ch) ==
    /\ pc = "idle"
    /\ sample_rate' = sr
    /\ channels' = ch
    /\ UNCHANGED envVars
    /\ UNCHANGED <<msgs, sender, sent, voices, pan_seed, prov_fb, ctl_fb,
                   snaps, guard, pc, frames, applied, mark,
                   last, published>>

\* the host calls fill_buffer with a buffer of f stereo frames.  Buffers are
\* explored at the configured rates only: the level resolution One is too
\* coarse for the steps of the default rate.
FillBufferBegins(f) ==
    /\ pc = "idle"
    /\ sample_rate \in SampleRates
    /\ pc' = "messages"
    /\ frames' = f
    /\ mark' = applied + Len(msgs)
    /\ UNCHANGED envVars
    /\ UNCHANGED <<msgs, sender, sent, voices, pan_seed, sample_rate, channels,
                   prov_fb, ctl_fb, snaps, guard, applied, last, published>>

\* one arm of the match in process_messages
ApplyMessage(b, fb, m) ==
    CASE m.kind = "NoteOff" -> [bank |-> BankNoteOff(b, m.note), fb |-> fb]
      [] m.kind = "NoteOn"  -> [bank |-> BankNoteOn(b, m.note, m.velocity), fb |-> fb]
      [] m.kind = "SetUiFeedback" -> [bank |-> b, fb |-> m.handle]

\* process_messages, one turn of the loop over try_iter: a message is received
\* and applied ...
ProcessMessage ==
    /\ pc = "messages"
    /\ TryRecv(msgs).ok
    /\ LET r == TryRecv(msgs)
           x == ApplyMessage([voices |-> voices, pan_seed |-> pan_seed], prov_fb, r.msg.msg)
       IN  /\ msgs' = r.rest
           /\ applied' = r.msg.seq
           /\ last' = r.msg.msg
           /\ voices' = x.bank.voices
           /\ pan_seed' = x.bank.pan_seed
           /\ prov_fb' = x.fb
    /\ UNCHANGED envVars
    /\ UNCHANGED <<sender, sent, sample_rate, channels, ctl_fb, snaps, guard,
                   pc, frames, mark, published>>

\* ... or the channel is empty and the loop ends
MessagesDone ==
    /\ pc = "messages"
    /\ ~TryRecv(msgs).ok
    /\ pc' = "fill"
    /\ UNCHANGED envVars
    /\ UNCHANGED <<msgs, sender, sent, voices, pan_seed, sample_rate, channels,
                   prov_fb, ctl_fb, snaps, guard, frames, applied, mark,
                   last, published>>

\* assert!(self.channels == 2), then every voice fills the buffer
FillVoices ==
    /\ pc = "fill"
    /\ IF channels # 2
       THEN /\ pc' = "panicked"
            /\ voices' = voices
       ELSE /\ pc' = "clean_up"
            /\ voices' = [i \in DOMAIN voices |->
                            UpdateAndFill(voices[i], frames, sample_rate)]
    /\ UNCHANGED envVars
    /\ UNCHANGED <<msgs, sender, sent, pan_seed, sample_rate, channels,
                   prov_fb, ctl_fb, snaps, guard, frames, applied, mark,
                   last, published>>

CleanUp ==
    /\ pc = "clean_up"
    /\ voices' = BankCleanUp([voices |-> voices, pan_seed |-> pan_seed]).voices
    /\ pc' = "feedback"
    /\ UNCHANGED envVars
    /\ UNCHANGED <<msgs, sender, sent, pan_seed, sample_rate, channels,
                   prov_fb, ctl_fb, snaps, guard, frames, applied, mark,
                   last, published>>

UiVoiceOf(v) ==
    [envelope |-> AdsrValue(v.adsr),
     pan      |-> v.pan * 2 - PanOne,
     note     |-> v.note,
     active   |-> v.active]

\* sort_by_key(|v| v.note): a stable insertion sort
RECURSIVE InsertByNote(_, _)
InsertByNote(s, x) ==
    IF s = <<>> THEN <<x>>
    ELSE IF s[Len(s)].note <= x.note THEN Append(s, x)
    ELSE Append(InsertByNote(SubSeq(s, 1, Len(s) - 1), x), s[Len(s)])

RECURSIVE SortByNote(_)
SortByNote(s) ==
    IF s = <<>> THEN <<>>
    ELSE InsertByNote(SortByNote(SubSeq(s, 1, Len(s) - 1)), s[Len(s)])

\* clear, then one push per voice of the bank, in the bank's order
Pushed(vs) == [i \in DOMAIN vs |-> UiVoiceOf(vs[i])]

\* what collect_feedback leaves in the snapshot
Published(vs) == SortByNote(Pushed(vs))

\* Mutex::try_lock of snapshot h: fails while the reader holds the guard
TryLockBarging(h) == TRUE

TryLock(h) == guard # h

\* collect_feedback up to the sort: without a snapshot, or when try_lock fails,
\* it returns; else it holds the lock and has cleared and refilled the list
CollectFeedback ==
    /\ pc = "feedback"
    /\ IF prov_fb # 0 /\ TryLock(prov_fb)
       THEN /\ snaps' = [snaps EXCEPT ![prov_fb] = Pushed(voices)]
            /\ published' = {<<voices[i].note, voices[i].active>> : i \in DOMAIN voices}
            /\ pc' = "sort"
       ELSE /\ snaps' = snaps
            /\ published' = published
            /\ pc' = "idle"
    /\ UNCHANGED envVars
    /\ UNCHANGED <<msgs, sender, sent, voices, pan_seed, sample_rate, channels,
                   prov_fb, ctl_fb, guard, frames, applied, mark, last>>

\* the sort that ends collect_feedback, and the drop of the lock
SortFeedback ==
    /\ pc = "sort"
    /\ snaps' = [snaps EXCEPT ![prov_fb] = SortByNote(snaps[prov_fb])]
    /\ pc' = "idle"
    /\ UNCHANGED envVars
    /\ UNCHANGED <<msgs, sender, sent, voices, pan_seed, sample_rate, channels,
                   prov_fb, ctl_fb, guard, frames, applied, mark,
                   last, published>>

----------------------------------------------------------------------------
(* Spec: the program of main.rs.  App::new builds the synthesiser with      *)
(* init_synth and calls enable_ui_feedback once, so the first message in   *)
(* the channel is SetUiFeedback of snapshot 1; from then on a MIDI thread  *)
(* calls note_on and note_off, the user interface reads the snapshot, and  *)
(* the host configures the provider and asks it for buffers.  Spec leaves   *)
(* the reader out (UiSpec has it) and keeps the channel count at 2.        *)

\* no "held since Silence" passage is being followed
NoRun == [on |-> FALSE, path |-> <<>>, n |-> 0, entry |-> 0, from |-> "Silence"]

Init ==
    /\ msgs = <<Stamp(SetUiFeedbackMsg(1), 1)>>
    /\ sender = <<>>
    /\ sent = 1
    /\ voices = BankNew.voices
    /\ pan_seed = BankNew.pan_seed
    /\ sample_rate = DefaultSampleRate
    /\ channels = DefaultChannels
    /\ prov_fb = 0
    /\ ctl_fb = 1
    /\ snaps = << <<>> >>
    /\ guard = 0
    /\ pc = "idle"
    /\ frames = 0
    /\ applied = 0
    /\ mark = 0
    /\ last = NoMsg
    /\ published = {}
    /\ env = AdsrNew(0) /\ held = FALSE /\ env_rate = DefaultSampleRate
    /\ ins = <<>> /\ run = NoRun

\* the note calls explored: at most k of them, and none while MaxPending
\* messages wait
MayCall(k) == sent <= k /\ Len(msgs) < MaxPending

Next ==
    \/ \E n \in Notes, v \in Velocities :
              MayCall(MaxSends) /\ CallNoteOn(n, v, QueueCapacity)
    \/ \E n \in Notes : MayCall(MaxSends) /\ CallNoteOff(n, QueueCapacity)
    \/ \E sr \in SampleRates : ConfigurationChanged(sr, DefaultChannels)
    \/ \E f \in Frames : FillBufferBegins(f)
    \/ ProcessMessage
    \/ MessagesDone
    \/ FillVoices
    \/ CleanUp
    \/ CollectFeedback
    \/ SortFeedback

Spec == Init /\ [][Next]_vars

----------------------------------------------------------------------------
(* UiSpec: the same program with the user interface reading the snapshot, *)
(* full-velocity notes and one-frame buffers.                              *)

UiNext ==
    \/ \E n \in Notes : MayCall(MaxSends) /\ CallNoteOn(n, MaxVelocity, QueueCapacity)
    \/ \E n \in Notes : MayCall(MaxSends) /\ CallNoteOff(n, QueueCapacity)
    \/ ReaderLock
    \/ ReaderUnlock
    \/ \E sr \in SampleRates : ConfigurationChanged(sr, DefaultChannels)
    \/ FillBufferBegins(1)
    \/ ProcessMessage
    \/ MessagesDone
    \/ FillVoices
    \/ CleanUp
    \/ CollectFeedback
    \/ SortFeedback

UiSpec == Init /\ [][UiNext]_vars

----------------------------------------------------------------------------
(* ChanSpec: the channel filled to its capacity.  The MIDI thread sends    *)
(* NoteOff(0) again and again, a few more times than the channel holds,    *)
(* and the host is late: it asks for a buffer only once the channel is     *)
(* full.                                                                   *)

ChanNext ==
    \/ sent < QueueCapacity + 2 /\ CallNoteOff(0, QueueCapacity)
    \/ SendResumes
    \/ \E sr \in SampleRates : ConfigurationChanged(sr, DefaultChannels)
    \/ Len(msgs) = QueueCapacity /\ FillBufferBegins(0)
    \/ ProcessMessage
    \/ MessagesDone
    \/ FillVoices
    \/ CleanUp
    \/ CollectFeedback
    \/ SortFeedback

ChanSpec == Init /\ [][ChanNext]_vars

----------------------------------------------------------------------------
(* LiveSpec: one note struck and released, with the scheduling the audio   *)
(* host provides: a buffer that was begun is finished, and buffers of at   *)
(* least one frame keep being asked for.                                   *)

LiveNext ==
    \/ MayCall(MaxSends) /\ CallNoteOn(0, MaxVelocity, QueueCapacity)
    \/ MayCall(MaxSends) /\ CallNoteOff(0, QueueCapacity)
    \/ \E sr \in SampleRates : ConfigurationChanged(sr, DefaultChannels)
    \/ \E f \in {0, 1} : FillBufferBegins(f)
    \/ ProcessMessage
    \/ MessagesDone
    \/ FillVoices
    \/ CleanUp
    \/ CollectFeedback
    \/ SortFeedback

FillBufferRuns ==
    ProcessMessage \/ MessagesDone \/ FillVoices \/ CleanUp \/ CollectFeedback
        \/ SortFeedback

LiveSpec ==
    /\ Init
    /\ [][LiveNext]_vars
    /\ WF_vars(FillBufferRuns)
    /\ SF_vars(FillBufferBegins(1))

----------------------------------------------------------------------------
(* BankSpec: one more note call than Spec, every buffer one frame long: a   *)
(* note can be struck, released and struck again while another sounds.     *)

BankNext ==
    \/ \E n \in Notes, v \in Velocities :
              MayCall(MaxSends + 1) /\ CallNoteOn(n, v, QueueCapacity)
    \/ \E n \in Notes : MayCall(MaxSends + 1) /\ CallNoteOff(n, QueueCapacity)
    \/ \E sr \in SampleRates : ConfigurationChanged(sr, DefaultChannels)
    \/ FillBufferBegins(1)
    \/ ProcessMessage
    \/ MessagesDone
    \/ FillVoices
    \/ CleanUp
    \/ CollectFeedback
    \/ SortFeedback

BankSpec == Init /\ [][BankNext]_vars

----------------------------------------------------------------------------
(* CapSpec: a chord that grows.  The MIDI thread strikes the notes 0, 1, 2,  *)
(* ... one after the other, one more than the bank was allocated for; the  *)
(* host renders one-frame buffers and is late: it asks for a buffer only    *)
(* when a snapshot's worth of messages wait.                                *)

CapNext ==
    \/ sent <= BankCapacity + 1 /\ CallNoteOn(sent - 1, MaxVelocity, QueueCapacity)
    \/ \E sr \in SampleRates : ConfigurationChanged(sr, DefaultChannels)
    \/ Len(msgs) >= SnapshotCapacity /\ FillBufferBegins(1)
    \/ ProcessMessage
    \/ MessagesDone
    \/ FillVoices
    \/ CleanUp
    \/ CollectFeedback
    \/ SortFeedback

CapSpec == Init /\ [][CapNext]_vars

----------------------------------------------------------------------------
(* CfgSpec: the host changes the configuration, channel count included,     *)
(* between buffers.                                                         *)

CfgNext ==
    \/ \E n \in Notes : MayCall(MaxSends) /\ CallNoteOn(n, MaxVelocity, QueueCapacity)
    \/ \E n \in Notes : MayCall(MaxSends) /\ CallNoteOff(n, QueueCapacity)
    \/ \E sr \in SampleRates, ch \in ChannelCounts : ConfigurationChanged(sr, ch)
    \/ FillBufferBegins(1)
    \/ ProcessMessage
    \/ MessagesDone
    \/ FillVoices
    \/ CleanUp
    \/ CollectFeedback
    \/ SortFeedback

CfgSpec == Init /\ [][CfgNext]_vars

----------------------------------------------------------------------------
(* EnvSpec: one voice's envelope, one sample at a time.  The steps are what *)
(* a Voice does to its Adsr: restart (set_gain, active = true), release    *)
(* (active = false), and advance(sample_dt, active) once per frame.        *)

Prefixes(s) == {SubSeq(s, 1, k) : k \in 0 .. Len(s)}

\* a longest ramp: samples a full-scale attack and decay can take at the fastest rate
RampLimit ==
    LET r == CHOOSE x \in EnvRates : \A y \in EnvRates : y <= x
    IN  (One \div AtkStep(r)) + (One \div DecStep(r)) + 2

EnvInit ==
    /\ env \in {AdsrNew(NoteGain(v)) : v \in EnvVelocities}
    /\ held = TRUE
    /\ env_rate \in EnvRates
    /\ ins = <<>>
    /\ run = NoRun
    /\ msgs = <<>> /\ sender = <<>> /\ sent = 0
    /\ voices = BankNew.voices /\ pan_seed = BankNew.pan_seed
    /\ sample_rate = DefaultSampleRate /\ channels = DefaultChannels
    /\ prov_fb = 0 /\ ctl_fb = 0 /\ snaps = <<>> /\ guard = 0
    /\ pc = "idle" /\ frames = 0 /\ applied = 0 /\ mark = 0
    /\ last = NoMsg /\ published = {}

\* Voice::restart
EnvRestart ==
    /\ \E v \in EnvVelocities : env' = SetGain(env, NoteGain(v))
    /\ held' = TRUE
    /\ UNCHANGED <<env_rate, ins, run>>
    /\ UNCHANGED synthVars

\* Voice::release
EnvRelease ==
    /\ held' = FALSE
    /\ UNCHANGED <<env, env_rate, ins, run>>
    /\ UNCHANGED synthVars

\* on_configuration_changed between two buffers
EnvConfigure ==
    /\ \E sr \in EnvRates : env_rate' = sr
    /\ UNCHANGED <<env, held, ins, run>>
    /\ UNCHANGED synthVars

\* the bookkeeping of a passage that starts in Silence with the input true and
\* lasts while the input stays true: states entered, samples spent before
\* Sustain, and the peak gain in force when Sustain was entered
RunAfter(old, new, value) ==
    IF old.state = "Silence" /\ value
    THEN [on |-> TRUE, path |-> <<new.state>>, n |-> 0, entry |-> 0, from |-> old.state]
    ELSE IF run.on /\ value
    THEN [on    |-> TRUE,
          path  |-> IF new.state # run.path[Len(run.path)] /\ Len(run.path) < 4
                    THEN Append(run.path, new.state) ELSE run.path,
          n     |-> IF new.state # "Sustain" THEN run.n + 1 ELSE run.n,
          entry |-> IF old.state # "Sustain" /\ new.state = "Sustain"
                    THEN new.gain_lvl ELSE run.entry,
          from  |-> old.state]
    ELSE [NoRun EXCEPT !.from = old.state]

\* one iteration of the frame loop of Voice::update_and_fill
EnvSample ==
    /\ env' = AdsrAdvance(env, env_rate, held)
    /\ ins' = IF Len(ins) < 2 THEN Append(ins, held) ELSE <<ins[2], held>>
    /\ run' = RunAfter(env, env', held)
    /\ UNCHANGED <<held, env_rate>>
    /\ UNCHANGED synthVars

EnvNext == EnvRestart \/ EnvRelease \/ EnvConfigure \/ EnvSample

EnvSpec == EnvInit /\ [][EnvNext]_vars

----------------------------------------------------------------------------
(* Claims about the voice bank, the channel and the snapshot *)

HasVoice(vs, note) == \E i \in DOMAIN vs : vs[i].note = note

\* C1: no two voices of the bank have the same note.
C1_OneVoicePerNote ==
    \A i, j \in DOMAIN voices : i # j => voices[i].note # voices[j].note

\* C1 witness: a NoteOn for a note that already sounds was applied: the one
\* voice sustains at the level of its first velocity under the peak gain of
\* the second.
C1_Witness ==
    /\ Len(voices) = 1
    /\ applied = 3
    /\ voices[1].adsr.state = "Sustain"
    /\ voices[1].adsr.position # SusLevel(voices[1].adsr.gain_lvl)

\* C2: a voice leaves the bank only in clean_up, and only when its ADSR is in
\* Silence and its silence-timer exceeds the threshold; a voice whose ADSR is
\* in Attack, Decay, Sustain or Release when clean_up runs stays.
C2_RemovedOnlyWhenSilent ==
    [][\A i \in DOMAIN voices :
          ~HasVoice(voices', voices[i].note) =>
              /\ pc = "clean_up"
              /\ voices[i].adsr.state = "Silence"
              /\ voices[i].silence_timer > SilenceThreshold]_vars

\* C2 witness: clean_up has just emptied a bank that had a voice.
C2_Witness == pc = "feedback" /\ voices = <<>> /\ pan_seed # 0

\* C3: a call on the control context never waits for the audio context, the
\* channel being full or not: the call returns.
C3_SendReturns == sender = <<>>

\* C4: the messages wait in send order and are applied in that order, none
\* skipped; and when the voices fill the buffer every message that waited
\* when fill_buffer began has been applied.
C4_DrainedInOrder ==
    /\ \A i \in DOMAIN msgs : msgs[i].seq = applied + i
    /\ pc \in {"fill", "clean_up", "feedback", "sort"} => applied >= mark

\* C4 witness: two NoteOn that waited together were both applied, and two
\* fresh voices are about to render their first frame.
C4_Witness ==
    /\ pc = "fill"
    /\ applied = 3
    /\ mark = 3
    /\ Len(voices) = 2
    /\ \A i \in DOMAIN voices :
          voices[i].adsr.state = "Silence" /\ voices[i].silence_timer = 0

\* C5: collect_feedback never waits.  It can always take its step, and while
\* the reader holds the lock of the provider's snapshot that step ends the
\* buffer with the snapshot and the voice bank as they were.
C5_PublishNeverWaits ==
    /\ [](pc = "feedback" => ENABLED CollectFeedback)
    /\ [][(pc = "feedback" /\ prov_fb # 0 /\ guard = prov_fb)
            => /\ pc' \in {"feedback", "idle"}
               /\ snaps' = snaps
               /\ voices' = voices
               /\ pan_seed' = pan_seed]_vars

\* C5 witness: a buffer ended while the reader held the lock, and the snapshot
\* is not what the bank would have published.
C5_Witness ==
    /\ pc = "idle"
    /\ prov_fb # 0
    /\ guard = prov_fb
    /\ voices # <<>>
    /\ snaps[prov_fb] # Published(voices)

Released(note) == \E i \in DOMAIN voices : voices[i].note = note /\ ~voices[i].active
Struck(note) == \E i \in DOMAIN voices : voices[i].note = note /\ voices[i].active
FadedOut(note) ==
    \E i \in DOMAIN voices : voices[i].note = note /\ voices[i].adsr.state = "Silence"

\* C6: a released voice that is not struck again reaches Silence, and is then
\* removed from the bank.
C6_ReleasedVoiceRetires ==
    /\ Released(0) ~> (FadedOut(0) \/ Struck(0) \/ ~HasVoice(voices, 0))
    /\ Released(0) ~> (Struck(0) \/ ~HasVoice(voices, 0))

\* C6 witness: the note was struck and released, both messages were applied,
\* and clean_up has removed the voice.
C6_Witness ==
    /\ pc = "feedback"
    /\ voices = <<>>
    /\ pan_seed # 0
    /\ sent = 3
    /\ applied = 3

\* C16: while the reader holds the snapshot its list is ascending by note with
\* no note twice, and has exactly one entry, with the note and the active flag,
\* for every voice the latest publish read from the bank (none before the
\* first publish).
C16_ReaderSeesWholePublish ==
    guard # 0 =>
        LET s == snaps[guard]
        IN  /\ \A i, j \in DOMAIN s : i < j => s[i].note < s[j].note
            /\ {<<s[i].note, s[i].active>> : i \in DOMAIN s} = published
            /\ Len(s) = Cardinality(published)

\* C16 witness: the reader holds a snapshot of two voices that the bank keeps in
\* the other order.
C16_Witness ==
    /\ guard # 0
    /\ Len(snaps[guard]) = 2
    /\ Len(voices) = 2
    /\ voices[1].note > voices[2].note

\* C17: fill_buffer never allocates: the bank never holds more voices than it
\* was allocated for, and no snapshot list more entries than it was allocated
\* for.
C17_NoAllocation ==
    /\ Len(voices) <= BankCapacity
    /\ \A h \in DOMAIN snaps : Len(snaps[h]) <= SnapshotCapacity

\* C18: fill_buffer never panics, whatever commands and configuration changes
\* came before it.
C18_RenderNeverPanics == pc # "panicked"

----------------------------------------------------------------------------
(* Claims about the effect of one message on the bank, checked under BankSpec *)

\* this step is process_messages applying the oldest waiting message
Applies == pc = "messages" /\ msgs # <<>> /\ applied' = Head(msgs).seq

\* C13: applying a NoteOn whose note has a voice changes that voice's peak
\* gain, active flag (to true) and silence-timer (to 0) and nothing else: not
\* the voice count, the pan seed, the voice's ADSR state, position, gate, phase
\* or pan, nor any other voice.
C13_RestrikeInPlace ==
    [][(Applies /\ Head(msgs).msg.kind = "NoteOn"
                /\ HasVoice(voices, Head(msgs).msg.note)) =>
        LET m == Head(msgs).msg
            i == FindNote(voices, m.note)
        IN  /\ Len(voices') = Len(voices)
            /\ pan_seed' = pan_seed
            /\ \A j \in DOMAIN voices : j # i => voices'[j] = voices[j]
            /\ voices'[i] = [voices[i] EXCEPT
                                !.adsr.gain_lvl = Isqrt(NoteGain(m.velocity) * One),
                                !.active = TRUE,
                                !.silence_timer = 0]]_vars

\* C13 witness: the last message applied was a NoteOn for a voice that sustains
\* beside another voice; it holds the level of its first velocity under the
\* peak gain of the second.
C13_Witness ==
    /\ pc = "messages"
    /\ last.kind = "NoteOn"
    /\ Len(voices) = 2
    /\ LET i == FindNote(voices, last.note)
       IN  /\ i # 0
           /\ voices[i].active
           /\ voices[i].silence_timer = 0
           /\ voices[i].adsr.state = "Sustain"
           /\ voices[i].adsr.position # SusLevel(voices[i].adsr.gain_lvl)

\* C14: applying a NoteOff whose note has no voice leaves every voice, the
\* voice count and the pan seed as they were, and process_messages goes on.
C14_UnknownNoteOffIsNoOp ==
    [][(Applies /\ Head(msgs).msg.kind = "NoteOff"
                /\ ~HasVoice(voices, Head(msgs).msg.note)) =>
        /\ voices' = voices
        /\ pan_seed' = pan_seed
        /\ pc' = "messages"]_vars

\* C14 witness: the last message applied was a NoteOff for a note without a
\* voice, in a bank that holds a sounding voice of another note.
C14_Witness ==
    /\ pc = "messages"
    /\ last.kind = "NoteOff"
    /\ ~HasVoice(voices, last.note)
    /\ Len(voices) = 1
    /\ voices[1].active
    /\ voices[1].adsr.state = "Sustain"

\* C15: the bank a NoteOn or NoteOff leaves is a fixed point of that message:
\* applying it again right away yields the same voices and pan seed.
C15_ResendIsIdempotent ==
    [][(Applies /\ Head(msgs).msg.kind \in {"NoteOn", "NoteOff"}) =>
        LET once == [voices |-> voices', pan_seed |-> pan_seed']
        IN  ApplyMessage(once, prov_fb', Head(msgs).msg).bank = once]_vars

\* C15 witness: the last message applied was a NoteOn that allocated the second
\* voice of the bank, beside a released one.
C15_Witness ==
    /\ pc = "messages"
    /\ last.kind = "NoteOn"
    /\ Len(voices) = 2
    /\ voices[2].note = last.note
    /\ voices[2].adsr.state = "Silence"
    /\ voices[2].active
    /\ ~voices[1].active
    /\ voices[1].adsr.state = "Release"

\* C20: with buffers of one frame, a voice that is active when the voices fill
\* the buffer comes out with its ADSR not in Silence and its silence-timer as
\* it was, and a voice that is active when clean_up runs stays in the bank.
C20_HeldVoiceStays ==
    [][\A i \in DOMAIN voices : voices[i].active =>
          /\ (pc = "fill" /\ pc' = "clean_up") =>
                /\ voices'[i].adsr.state # "Silence"
                /\ voices'[i].silence_timer = voices[i].silence_timer
          /\ (pc = "clean_up" /\ pc' = "feedback") =>
                HasVoice(voices', voices[i].note)]_vars

\* C20 witness: a voice of note 1 that was silent and had rendered frames before
\* (its phase has come round) was struck again: the frame just rendered took
\* it from Silence into Attack.
C20_Witness ==
    /\ pc = "clean_up"
    /\ last.kind = "NoteOn"
    /\ Len(voices) = 1
    /\ voices[1].note = 1
    /\ voices[1].active
    /\ voices[1].adsr.state = "Attack"
    /\ voices[1].adsr.position = 0
    /\ voices[1].phase = 0
    /\ pan_seed = PanSeedNum % PanSeedDen

----------------------------------------------------------------------------
(* Claims about the envelope and the gate, checked under EnvSpec *)

\* C7 as stated: in every reachable state the ADSR position lies within
\* [0, current peak gain].
C7_PositionWithinPeak == 0 <= env.position /\ env.position <= env.gain_lvl

\* C7 amended: the position never exceeds full scale (1.0), and it is never
\* negative outside Attack; the peak gain bounds neither side.
C7_PositionWithinFullScale ==
    /\ env.position <= One
    /\ env.state # "Attack" => env.position >= 0

\* C7 witness: after a softer re-strike the position sits above the new peak
\* gain, and the envelope has moved through Decay into Sustain with it.
C7_Witness ==
    /\ env.state = "Sustain"
    /\ env.position > env.gain_lvl
    /\ Len(ins) = 2

\* C8: what Gate.update returns is decided by the input and the input before
\* it (false when there was none): RisingEdge on false-then-true, FallingEdge
\* on true-then-false, High on true-then-true, Low on false-then-false.
C8_GateReportsEdges ==
    Len(ins) >= 1 =>
        LET cur  == ins[Len(ins)]
            prev == IF Len(ins) = 1 THEN FALSE ELSE ins[1]
        IN  env.gate = IF cur /\ ~prev THEN "RisingEdge"
                       ELSE IF ~cur /\ prev THEN "FallingEdge"
                       ELSE IF cur THEN "High"
                       ELSE "Low"

\* C8 witness: a second rising edge, reported right after a falling one.
C8_Witness == ins = <<FALSE, TRUE>> /\ env.gate = "RisingEdge" /\ env.state # "Silence"

\* C9 as stated: from Silence, while the input stays true, the envelope enters
\* Attack, Decay, Sustain in that order and nothing else, is in Sustain within
\* a bounded number of samples, and in Sustain its position equals
\* sustainLevel * (current) peak gain.
C9_HeldReachesSustainAtPeak ==
    run.on =>
        /\ run.path \in Prefixes(<<"Attack", "Decay", "Sustain">>) \ {<<>>}
        /\ run.n <= RampLimit
        /\ env.state = "Sustain" => env.position = SusLevel(env.gain_lvl)

\* C9 amended: as stated, except that the position held in Sustain is
\* sustainLevel * the peak gain in force when Sustain was entered; a re-strike
\* that changes the peak gain while the note is held does not move it.
C9_HeldReachesSustain ==
    run.on =>
        /\ run.path \in Prefixes(<<"Attack", "Decay", "Sustain">>) \ {<<>>}
        /\ run.n <= RampLimit
        /\ env.state = "Sustain" => env.position = SusLevel(run.entry)

\* C9 witness: a held passage that went through all three states and has
\* stayed in Sustain, at a non-zero level, for a sample.
C9_Witness ==
    /\ run.on
    /\ run.path = <<"Attack", "Decay", "Sustain">>
    /\ run.from = "Sustain"
    /\ env.position > 0
    /\ run.n > 2

\* the amount one sample takes off the position in each state
RampDown(state, sr) ==
    CASE state = "Decay" -> DecStep(sr)
      [] state = "Release" -> RelStep(sr)
      [] OTHER -> 0

\* C10: a sample on which the gate reports RisingEdge while the envelope is in
\* Decay, Sustain or Release leaves it in Attack, with the position carried on
\* from where it was (less that sample's ramp), not reset to 0.
C10_RestrikeKeepsPosition ==
    [][(env.state \in {"Decay", "Sustain", "Release"}
            /\ env'.gate = "RisingEdge" /\ env.gate # "RisingEdge")
        => (env'.state = "Attack"
            /\ env'.position = env.position - RampDown(env.state, env_rate))]_vars

\* C10 witness: a rising edge that arrived during Release, now in Attack above 0.
C10_Witness ==
    /\ run.from = "Release"
    /\ env.gate = "RisingEdge"
    /\ env.state = "Attack"
    /\ env.position > 0

\* C11: with the input false, a sample in Sustain enters Release; from then on
\* the position never increases from one sample to the next, and a sample in
\* Release ends in Silence, at position 0, exactly when the position less the
\* release step is <= 0, and stays in Release above 0 otherwise.
C11_ReleaseRunsDownToSilence ==
    [][(~held /\ ~held' /\ env' # env) =>
        /\ (env.state = "Sustain" => env'.state = "Release")
        /\ (env.state \in {"Sustain", "Release"} => env'.position <= env.position)
        /\ (env.state = "Release" =>
              /\ env'.state \in {"Release", "Silence"}
              /\ (env'.state = "Silence") = (env.position - RelStep(env_rate) <= 0)
              /\ (env'.state = "Silence" => env'.position = 0)
              /\ (env'.state = "Release" => env'.position > 0))]_vars

\* C11 witness: a released envelope of non-zero peak gain has just gone from
\* Release to Silence, the input having been false for two samples at least.
C11_Witness ==
    /\ env.state = "Silence"
    /\ run.from = "Release"
    /\ ~held
    /\ ins = <<FALSE, FALSE>>
    /\ env.gain_lvl > 0

\* C12: in Silence the position is 0; the envelope leaves Silence only on a
\* sample whose gate is RisingEdge; and while the input is false a step from
\* Silence stays in Silence at position 0.
C12_SilencePinned ==
    /\ [](env.state = "Silence" => env.position = 0)
    /\ [][(env.state = "Silence" /\ env'.state # "Silence")
            => env'.gate = "RisingEdge"]_vars
    /\ [][(env.state = "Silence" /\ ~held)
            => (env'.state = "Silence" /\ env'.position = 0)]_vars

\* C12 witness: Silence was reached from Release on the last sample, at
\* position 0, and the voice has been struck again.
C12_Witness ==
    /\ env.state = "Silence"
    /\ run.from = "Release"
    /\ env.position = 0
    /\ held

\* C19: Release is entered from Sustain only; Attack ends in Decay and Decay in
\* Sustain, or in Attack, whatever the gate; and a step from Decay, Sustain or
\* Release into Attack is a sample whose gate is RisingEdge.
C19_OnlySustainReleases ==
    [][/\ ((env'.state = "Release" /\ env.state # "Release") => env.state = "Sustain")
       /\ (env.state = "Attack" => env'.state \in {"Attack", "Decay"})
       /\ (env.state = "Decay" => env'.state \in {"Decay", "Sustain", "Attack"})
       /\ ((env.state \in {"Decay", "Sustain", "Release"} /\ env'.state = "Attack")
             => env'.gate = "RisingEdge")]_vars

\* C19 witness: the input has been false for two samples and the envelope has
\* only now come from Decay into Sustain.
C19_Witness ==
    /\ env.state = "Sustain"
    /\ run.from = "Decay"
    /\ ~held
    /\ ins = <<FALSE, FALSE>>

====
